---- MODULE Spec2Model ----
(***************************************************************************)
(* voice-deck: bilingual (Korean / Latin) text segmentation and the        *)
(* sequential multi-segment playback controller built on the browser's     *)
(* speechSynthesis queue.                                                  *)
(*                                                                         *)
(* The repository holds three variants of the same page script:            *)
(*   "base"      src/main.js                  base segmentation policy,    *)
(*                                            handlers on the last         *)
(*                                            utterance only               *)
(*   "translate" src/unnamed/part_000:1-370   sentence-boundary policy,    *)
(*                                            highlighting, translation    *)
(*   "highlight" src/unnamed/part_000:372-668 sentence-boundary policy,    *)
(*                                            highlighting                 *)
(* The variable `variant` is fixed by Init and selects the code modelled.  *)
(*                                                                         *)
(* Characters are modelled by one representative per class:                *)
(*   "k"  a Hangul character        "a"  any other letter (Latin)          *)
(*   "1"  a digit   " "  a blank   "\n" a line break   "." a full stop     *)
(*   "[" and "]"  punctuation of the neutral set                           *)
(* A text is a sequence of such characters.                                *)
(***************************************************************************)
EXTENDS Integers, Sequences, FiniteSets, TLC

\* ---------------------------------------------------------------- bounds
\* number of speak() invocations that pass the empty-text test in one run
MaxSess == 2

\* length of the texts the segmenter is applied to on its own
MaxLen == 4

Variants == {"base", "translate", "highlight"}

\* ------------------------------------------------------- character classes
KoreanChars == {"k"}
WhiteSpace == {" ", "\n"}
NeutralChars == {"1", " ", "\n", ".", "[", "]"}
SentenceEndChars == {".", "\n"}

\* a test that recognises no character as Hangul
isKorean_Never(char) == FALSE

\* koreanRegex.test(char)
isKorean(char) == char \in KoreanChars

\* /[0-9\s\.,!?@#$%^&*()_\-+=:;"'<>\[\]{}]/.test(char)
isNeutral(char) == char \in NeutralChars

\* a classification that takes digits for Latin letters
charTypeOf_DigitsLatin(char) ==
  IF isKorean(char) THEN "ko"
  ELSE IF isNeutral(char) /\ char # "1" THEN "neutral"
  ELSE "en"

\* let charType = 'en'; if (isKorean) 'ko'; else if (isNeutral) 'neutral'
charTypeOf(char) ==
  IF isKorean(char) THEN "ko"
  ELSE IF isNeutral(char) THEN "neutral"
  ELSE "en"

\* sentenceEndRegex.test(char)
isSentenceEnd(char) == char \in SentenceEndChars

\* s.trim(): the text without its leading and trailing white space
RECURSIVE TrimLeft(_)
TrimLeft(s) ==
  IF s = <<>> THEN <<>>
  ELSE IF s[1] \in WhiteSpace THEN TrimLeft(Tail(s))
  ELSE s

RECURSIVE TrimRight(_)
TrimRight(s) ==
  IF s = <<>> THEN <<>>
  ELSE IF s[Len(s)] \in WhiteSpace THEN TrimRight(SubSeq(s, 1, Len(s) - 1))
  ELSE s

\* a trim that removes nothing
trim_KeepsAll(s) == s

trim(s) == TrimRight(TrimLeft(s))

\* a filter that lets every segment through
FilterNonBlank_KeepsAll(segs) == segs

\* segments.filter(pred)
RECURSIVE FilterNonBlank(_)
FilterNonBlank(segs) ==
  IF segs = <<>> THEN <<>>
  ELSE IF Len(trim(segs[1].text)) > 0
         THEN <<segs[1]>> \o FilterNonBlank(Tail(segs))
         ELSE FilterNonBlank(Tail(segs))

\* ------------------------------------------------ parseText, base policy
\* a scan that starts a new segment at every letter
ParseBaseStep_SplitsAtLetters(st, char) ==
  LET charType == charTypeOf(char)
      cur == st.cur
  IN IF cur.type = "unknown"
       THEN [segments |-> st.segments,
             cur |-> [text |-> Append(cur.text, char),
                      type |-> IF charType = "neutral" THEN "en" ELSE charType]]
     ELSE IF charType = "neutral"
       THEN [segments |-> st.segments,
             cur |-> [text |-> Append(cur.text, char), type |-> cur.type]]
     ELSE [segments |-> IF Len(trim(cur.text)) > 0
                          THEN Append(st.segments, cur)
                          ELSE st.segments,
           cur |-> [text |-> <<char>>, type |-> charType]]

\* a scan that never switches language: every character joins the open
\* segment
ParseBaseStep_NeverSwitches(st, char) ==
  LET charType == charTypeOf(char)
      cur == st.cur
  IN IF cur.type = "unknown"
       THEN [segments |-> st.segments,
             cur |-> [text |-> Append(cur.text, char),
                      type |-> IF charType = "neutral" THEN "en" ELSE charType]]
     ELSE [segments |-> st.segments,
           cur |-> [text |-> Append(cur.text, char), type |-> cur.type]]

\* a scan whose first branch leaves the language undecided while the
\* characters are neutral, so the first letter decides it
ParseBaseStep_NeutralStartUnknown(st, char) ==
  LET charType == charTypeOf(char)
      cur == st.cur
  IN IF cur.type = "unknown"
       THEN [segments |-> st.segments,
             cur |-> [text |-> Append(cur.text, char),
                      type |-> IF charType = "neutral" THEN "unknown"
                                                       ELSE charType]]
     ELSE IF charType = "neutral"
       THEN [segments |-> st.segments,
             cur |-> [text |-> Append(cur.text, char), type |-> cur.type]]
     ELSE IF charType = cur.type
       THEN [segments |-> st.segments,
             cur |-> [text |-> Append(cur.text, char), type |-> cur.type]]
     ELSE [segments |-> IF Len(trim(cur.text)) > 0
                          THEN Append(st.segments, cur)
                          ELSE st.segments,
           cur |-> [text |-> <<char>>, type |-> charType]]

\* One iteration of the scan of src/main.js; st = [segments, cur].
ParseBaseStep(st, char) ==
  LET charType == charTypeOf(char)
      cur == st.cur
  IN IF cur.type = "unknown"
       THEN [segments |-> st.segments,
             cur |-> [text |-> Append(cur.text, char),
                      type |-> IF charType = "neutral" THEN "en" ELSE charType]]
     ELSE IF charType = "neutral"
       THEN [segments |-> st.segments,
             cur |-> [text |-> Append(cur.text, char), type |-> cur.type]]
     ELSE IF charType = cur.type
       THEN [segments |-> st.segments,
             cur |-> [text |-> Append(cur.text, char), type |-> cur.type]]
     ELSE [segments |-> IF Len(trim(cur.text)) > 0
                          THEN Append(st.segments, cur)
                          ELSE st.segments,
           cur |-> [text |-> <<char>>, type |-> charType]]

RECURSIVE ParseBaseScan(_, _, _)
ParseBaseScan(text, i, st) ==
  IF i > Len(text) THEN st
  ELSE ParseBaseScan(text, i + 1, ParseBaseStep(st, text[i]))

\* a scan that pushes the segment open at the end of the text unseen
parseTextBase_PushesLast(text) ==
  LET st == ParseBaseScan(text, 1,
              [segments |-> <<>>, cur |-> [text |-> <<>>, type |-> "unknown"]])
  IN Append(st.segments, st.cur)

\* a scan that forgets the segment still open at the end of the text
parseTextBase_DropsLast(text) ==
  LET st == ParseBaseScan(text, 1,
              [segments |-> <<>>, cur |-> [text |-> <<>>, type |-> "unknown"]])
  IN st.segments

parseTextBase(text) ==
  LET st == ParseBaseScan(text, 1,
              [segments |-> <<>>, cur |-> [text |-> <<>>, type |-> "unknown"]])
  IN IF Len(trim(st.cur.text)) > 0
       THEN Append(st.segments, st.cur)
       ELSE st.segments

\* ------------------------------------ parseText, sentence-boundary policy
\* a scan that carries the language of a sentence over to the next one
ParseSentenceStep_KeepsType(st, char) ==
  LET charType == charTypeOf(char)
      curType == IF st.cur.type = "unknown"
                   THEN (IF charType = "neutral" THEN "en" ELSE charType)
                   ELSE st.cur.type
      typeChanged == charType # "neutral" /\ charType # curType
  IN IF typeChanged
       THEN [segments |-> IF Len(st.cur.text) > 0
                            THEN Append(st.segments,
                                        [text |-> st.cur.text, type |-> curType])
                            ELSE st.segments,
             cur |-> [text |-> <<char>>, type |-> charType]]
     ELSE LET appended == [text |-> Append(st.cur.text, char), type |-> curType]
          IN IF isSentenceEnd(char)
               THEN [segments |-> Append(st.segments, appended),
                     cur |-> [text |-> <<>>, type |-> curType]]
               ELSE [segments |-> st.segments, cur |-> appended]

\* One iteration of the scan of src/unnamed/part_000.
ParseSentenceStep(st, char) ==
  LET charType == charTypeOf(char)
      curType == IF st.cur.type = "unknown"
                   THEN (IF charType = "neutral" THEN "en" ELSE charType)
                   ELSE st.cur.type
      typeChanged == charType # "neutral" /\ charType # curType
  IN IF typeChanged
       THEN [segments |-> IF Len(st.cur.text) > 0
                            THEN Append(st.segments,
                                        [text |-> st.cur.text, type |-> curType])
                            ELSE st.segments,
             cur |-> [text |-> <<char>>, type |-> charType]]
     ELSE LET appended == [text |-> Append(st.cur.text, char), type |-> curType]
          IN IF isSentenceEnd(char)
               THEN [segments |-> Append(st.segments, appended),
                     cur |-> [text |-> <<>>, type |-> "unknown"]]
               ELSE [segments |-> st.segments, cur |-> appended]

RECURSIVE ParseSentenceScan(_, _, _)
ParseSentenceScan(text, i, st) ==
  IF i > Len(text) THEN st
  ELSE ParseSentenceScan(text, i + 1, ParseSentenceStep(st, text[i]))

parseTextSentence(text) ==
  LET st == ParseSentenceScan(text, 1,
              [segments |-> <<>>, cur |-> [text |-> <<>>, type |-> "unknown"]])
      all == IF Len(st.cur.text) > 0
               THEN Append(st.segments, st.cur)
               ELSE st.segments
  IN FilterNonBlank(all)

\* parseText of the variant at hand
parseText(v, text) ==
  IF v = "base" THEN parseTextBase(text) ELSE parseTextSentence(text)

\* ------------------------------------------------------------ inputs
\* values of textInput the user may have typed when Play is clicked
InputTexts ==
  { <<>>, <<" ">>, <<"a">>, <<"k", "a", "k">> }

\* the characters of the texts the segmenter is applied to on its own
SegChars == {"k", "a", "1", " ", "\n", "."}

\* all texts of n characters
RECURSIVE TextsOfLen(_)
TextsOfLen(n) ==
  IF n = 0 THEN { <<>> }
  ELSE { Append(t, c) : t \in TextsOfLen(n - 1), c \in SegChars }

\* "1995년"
Text1995 == <<"1", "1", "1", "1", "k">>

\* "Hello 안녕하세요 world"
TextHello ==
  <<"a", "a", "a", "a", "a", " ", "k", "k", "k", "k", "k", " ",
    "a", "a", "a", "a", "a">>

\* "abc123한글"
TextAbc123 == <<"a", "a", "a", "1", "1", "1", "k", "k">>

\* the texts parseText is applied to on its own: every text of at most MaxLen
\* characters, and the three texts above
ParseInputs ==
  UNION { TextsOfLen(n) : n \in 0..MaxLen } \cup {Text1995, TextHello, TextAbc123}

\* '[Translation Failed]', the value translateText returns on any failure
TranslationFailed == <<"[", "a", " ", "a", "]">>

\* values the translation request may resolve to
TranslationResults == { <<"a">>, TranslationFailed }

\* ------------------------------------------------------------- state
VARIABLES
  variant,          \* which of the three page scripts runs
  indicatorHidden,  \* statusIndicator.classList.contains('hidden')
  playDisabled,     \* playBtn.disabled
  pauseDisabled,    \* pauseBtn.disabled
  stopDisabled,     \* stopBtn.disabled
  queue,            \* speechSynthesis: utterances spoken or pending, FIFO
  paused,           \* speechSynthesis.paused
  stray,            \* cancelled utterances whose events are still in flight
  currentSegments,  \* let currentSegments (part_000)
  highlight,        \* indices i whose span seg-<i> carries class 'highlight'
  isTranslating,    \* let isTranslating (part_000:24)
  pending,          \* speak() invocations suspended at await translateText
  nsess,            \* number of speak() invocations that got past text !== ''
  quiet,            \* no click on Pause or Stop so far
  ev,               \* the handler that ran last, and what it did
  parseInput,       \* parseText on its own: the argument `text`
  parseOutput,      \* parseText on its own: the array returned
  parseDone         \* parseText on its own: it has returned

uiVars == <<indicatorHidden, playDisabled, pauseDisabled, stopDisabled>>
engineVars == <<queue, paused, stray>>
domVars == <<currentSegments, highlight>>
parseVars == <<parseInput, parseOutput, parseDone>>
vars == <<variant, indicatorHidden, playDisabled, pauseDisabled, stopDisabled,
          queue, paused, stray, currentSegments, highlight,
          isTranslating, pending, nsess, quiet, ev,
          parseInput, parseOutput, parseDone>>

\* synth.speaking: an utterance is being spoken or waits in the queue
speaking == queue # <<>>

\* The aggregate state the page shows.  setSpeakingState(true) shows the
\* status indicator and disables Play; setSpeakingState(false) hides the
\* indicator and enables Play; the pause handler hides the indicator and
\* leaves Play disabled.
\* A visible indicator with Play enabled (the resume branch of part_000's
\* Play handler can leave it so) still shows the page as speaking.
AggStateOf(hidden, playDis) ==
  IF ~hidden THEN "Speaking"
  ELSE IF playDis THEN "Paused"
  ELSE "Idle"

AggState == AggStateOf(indicatorHidden, playDisabled)

NoEv == [op |-> "none", branch |-> "none"]

Ev(op, branch) == [op |-> op, branch |-> branch]

\* The markup is not part of the sources: the page starts as
\* setSpeakingState(false) leaves it, except that the Pause and Stop buttons
\* may or may not carry the disabled attribute.
PageInit ==
  /\ variant \in Variants
  /\ indicatorHidden = TRUE
  /\ playDisabled = FALSE
  /\ pauseDisabled \in BOOLEAN
  /\ stopDisabled \in BOOLEAN
  /\ queue = <<>>
  /\ paused = FALSE
  /\ stray = <<>>
  /\ currentSegments = <<>>
  /\ highlight = {}
  /\ isTranslating = FALSE
  /\ pending = {}
  /\ nsess = 0
  /\ quiet = TRUE
  /\ ev = NoEv

\* the page: parseText runs only inside speak()
Init ==
  /\ PageInit
  /\ parseInput = <<>>
  /\ parseOutput = <<>>
  /\ parseDone = FALSE

\* ------------------------------------------------------ speech engine
\* an utterance that takes the Latin voice whatever the segment's tag
Utterance_LatinVoiceOnly(sess, index, segment, n) ==
  [sess |-> sess, index |-> index, text |-> segment.text,
   voice |-> "voiceSelectEn",
   rate |-> "rateInput.value", pitch |-> "pitchInput.value",
   n |-> n, started |-> FALSE, inflight |-> FALSE]

\* new SpeechSynthesisUtterance(segment.text) with its voice (the one chosen
\* in the select of the segment's language), rate and pitch (the values of
\* the two sliders when the forEach runs); index and n are the forEach index
\* and segments.length captured by the handlers' closures
Utterance(sess, index, segment, n) ==
  [sess |-> sess, index |-> index, text |-> segment.text,
   voice |-> IF segment.type = "ko" THEN "voiceSelectKo" ELSE "voiceSelectEn",
   rate |-> "rateInput.value", pitch |-> "pitchInput.value",
   n |-> n, started |-> FALSE, inflight |-> FALSE]

\* segments.forEach((segment, index) => ... synth.speak(utterance))
Utterances(sess, segments) ==
  [j \in 1..Len(segments) |-> Utterance(sess, j - 1, segments[j], Len(segments))]

\* synth.cancel(): every utterance leaves the queue; the engine may still
\* raise events on them later: an error on each of them, and on the one it
\* was about to speak or speaking (the head) a start still in flight and, as
\* some engines do, an end instead of the error.
Cancelled(q) == [j \in 1..Len(q) |-> [q[j] EXCEPT !.inflight = (j = 1)]]

\* synth.cancel() leaves synth.paused alone by the Web Speech API; some
\* engines reset it.
PausedAfterCancel(p) == {p, FALSE}

\* ------------------------------------------------------- UI helpers
\* setSpeakingState(true)
SetSpeakingTrue ==
  /\ indicatorHidden' = FALSE
  /\ pauseDisabled' = FALSE
  /\ stopDisabled' = FALSE
  /\ playDisabled' = TRUE

\* the cancel at the end of setSpeakingState(false):
\* part_000 has `if (synth.speaking) synth.cancel()`, src/main.js has not
CancelsOnIdle(v, q) == v # "base" /\ q # <<>>

\* setSpeakingState(false), called when the engine queue is q and the
\* cancelled utterances still in flight are st
SetSpeakingFalse(q, st) ==
  /\ indicatorHidden' = TRUE
  /\ pauseDisabled' = TRUE
  /\ stopDisabled' = TRUE
  /\ playDisabled' = FALSE
  /\ IF CancelsOnIdle(variant, q)
       THEN /\ queue' = <<>>
            /\ stray' = st \o Cancelled(q)
            /\ paused' \in PausedAfterCancel(paused)
       ELSE /\ queue' = q
            /\ stray' = st
            /\ paused' = paused

\* prepareDisplayArea(currentSegments) puts one span seg-<i> per segment in
\* displayArea: getElementById('seg-' + index) finds one iff index < spans
spans == Len(currentSegments)

\* highlightSegment(index)
highlightSegment(index) == IF index < spans THEN {index} ELSE {}

\* unhighlightSegment(index)
unhighlightSegment(index) == highlight \ {index}

\* a handler that leaves the buttons, the indicator and the engine alone
KeepState(q, st) ==
  /\ UNCHANGED uiVars
  /\ queue' = q
  /\ stray' = st
  /\ paused' = paused

\* ------------------------------------------- per-utterance callbacks
\* Does the callback of utterance u take the "last segment" branch?
\* src/main.js attaches handlers to the last utterance only (closure test);
\* part_000 compares with currentSegments.length when the callback runs.
IsLastSegment(v, u, segs) ==
  IF v = "base" THEN u.index = u.n - 1 ELSE u.index = Len(segs) - 1

\* Does utterance.onerror of u return the page to idle?
\* part_000:555-557 does so for every utterance.
ErrorGoesIdle(v, u, segs) ==
  IF v = "highlight" THEN TRUE ELSE IsLastSegment(v, u, segs)

\* utterance.onstart of u
HandleStart(u, q, st) ==
  /\ KeepState(q, st)
  /\ highlight' = IF variant = "base" THEN highlight ELSE highlightSegment(u.index)

\* utterance.onend of u, the engine queue being q
HandleEnd(u, q, st) ==
  /\ highlight' = IF variant = "base" THEN highlight ELSE unhighlightSegment(u.index)
  /\ IF IsLastSegment(variant, u, currentSegments)
       THEN SetSpeakingFalse(q, st)
       ELSE KeepState(q, st)

\* utterance.onerror of u, the engine queue being q
HandleError(u, q, st) ==
  /\ UNCHANGED highlight
  /\ IF ErrorGoesIdle(variant, u, currentSegments)
       THEN SetSpeakingFalse(q, st)
       ELSE KeepState(q, st)

MarkStarted(q) == [q EXCEPT ![1].started = TRUE]

\* The engine begins the utterance at the head of its queue.
OnStart ==
  /\ queue # <<>>
  /\ ~paused
  /\ ~queue[1].started
  /\ HandleStart(queue[1], MarkStarted(queue), stray)
  /\ ev' = Ev("start", "live")
  /\ UNCHANGED <<parseVars, variant, currentSegments, isTranslating, pending, nsess, quiet>>

\* The engine finishes the utterance at the head of its queue.
OnEnd ==
  /\ queue # <<>>
  /\ ~paused
  /\ queue[1].started
  /\ HandleEnd(queue[1], Tail(queue), stray)
  /\ ev' = Ev("end", "live")
  /\ UNCHANGED <<parseVars, variant, currentSegments, isTranslating, pending, nsess, quiet>>

\* The engine fails on the utterance at the head of its queue.
OnError ==
  /\ queue # <<>>
  /\ ~paused
  /\ HandleError(queue[1], Tail(queue), stray)
  /\ ev' = Ev("error", "live")
  /\ UNCHANGED <<parseVars, variant, currentSegments, isTranslating, pending, nsess, quiet>>

\* Events of utterances removed by synth.cancel() arrive after the cancel.
StrayStart ==
  /\ stray # <<>>
  /\ stray[1].inflight
  /\ ~stray[1].started
  /\ HandleStart(stray[1], queue, MarkStarted(stray))
  /\ ev' = Ev("start", "stray")
  /\ UNCHANGED <<parseVars, variant, currentSegments, isTranslating, pending, nsess, quiet>>

StrayEnd ==
  /\ stray # <<>>
  /\ stray[1].started
  /\ HandleEnd(stray[1], queue, Tail(stray))
  /\ ev' = Ev("end", "stray")
  /\ UNCHANGED <<parseVars, variant, currentSegments, isTranslating, pending, nsess, quiet>>

StrayError ==
  /\ stray # <<>>
  /\ HandleError(stray[1], queue, Tail(stray))
  /\ ev' = Ev("error", "stray")
  /\ UNCHANGED <<parseVars, variant, currentSegments, isTranslating, pending, nsess, quiet>>

\* ------------------------------------------------------------ speak()
\* parse, prepareDisplayArea and the forEach that queues the utterances
Submit(sess, text) ==
  LET segments == parseText(variant, text)
  IN /\ queue' = queue \o Utterances(sess, segments)
     /\ IF variant = "base"
          THEN UNCHANGED domVars
          ELSE /\ currentSegments' = segments
               /\ highlight' = {}

\* speak() up to its first await, or to its end when it does not await
Speak(text, translate) ==
  IF speaking
    THEN /\ ev' = Ev("play", "already")
         /\ UNCHANGED <<uiVars, engineVars, domVars, isTranslating, pending, nsess>>
  ELSE IF text = <<>>
    THEN /\ ev' = Ev("play", "empty")
         /\ UNCHANGED <<uiVars, engineVars, domVars, isTranslating, pending, nsess>>
  ELSE /\ nsess < MaxSess
       /\ nsess' = nsess + 1
       /\ SetSpeakingTrue
       /\ UNCHANGED <<paused, stray>>
       /\ IF variant = "translate" /\ translate
            THEN /\ isTranslating' = TRUE
                 /\ pending' = pending \cup {[sess |-> nsess + 1, text |-> text,
                                            stopped |-> FALSE]}
                 /\ ev' = Ev("play", "translate")
                 /\ UNCHANGED <<queue, domVars>>
            ELSE /\ Submit(nsess + 1, text)
                 /\ ev' = Ev("play", "start")
                 /\ UNCHANGED <<isTranslating, pending>>

\* text = `${text}\n\n${translation}`
Combined(text, translation) == text \o <<"\n", "\n">> \o translation

\* the rest of the speak() call p once its translateText has resolved to
\* `translation`
Translated(p, translation) ==
  /\ pending' = pending \ {p}
  /\ isTranslating' = FALSE
  /\ UNCHANGED <<uiVars, paused, stray, nsess>>
  /\ IF ~isTranslating
       THEN /\ ev' = Ev("translated", "cancelled")
            /\ UNCHANGED <<queue, domVars>>
     ELSE IF indicatorHidden
       THEN /\ ev' = Ev("translated", "hidden")
            /\ UNCHANGED <<queue, domVars>>
     ELSE /\ Submit(p.sess, Combined(p.text, translation))
          /\ ev' = Ev("translated", "start")

\* the rest of speak() once translateText has resolved
TranslateDone ==
  /\ variant = "translate"
  /\ \E p \in pending, translation \in TranslationResults :
       Translated(p, translation)
  /\ UNCHANGED <<parseVars, variant, quiet>>

\* -------------------------------------------------------- the buttons
\* playBtn click
PlayClick ==
  /\ ~playDisabled
  /\ IF paused
       THEN /\ paused' = FALSE
            /\ IF variant = "base"
                 THEN SetSpeakingTrue
                 ELSE /\ indicatorHidden' = FALSE
                      /\ UNCHANGED <<playDisabled, pauseDisabled, stopDisabled>>
            /\ ev' = Ev("play", "resume")
            /\ UNCHANGED <<queue, stray, domVars, isTranslating, pending, nsess>>
       ELSE \E text \in InputTexts, translate \in BOOLEAN :
              /\ (translate => variant = "translate")
              /\ Speak(text, translate)
  /\ UNCHANGED <<parseVars, variant, quiet>>

\* pauseBtn click, first branch: synth.pause() and hide the indicator
PauseBranch ==
  /\ paused' = TRUE
  /\ indicatorHidden' = TRUE
  /\ queue' = queue
  /\ ev' = Ev("pause", "pause")

\* a resume that skips what is left of the utterance being spoken
ResumeBranch_SkipsCurrent ==
  /\ paused' = FALSE
  /\ indicatorHidden' = FALSE
  /\ queue' = Tail(queue)
  /\ ev' = Ev("pause", "resume")

\* pauseBtn click, second branch: synth.resume() and show the indicator
ResumeBranch ==
  /\ paused' = FALSE
  /\ indicatorHidden' = FALSE
  /\ queue' = queue
  /\ ev' = Ev("pause", "resume")

\* pauseBtn click
PauseClick ==
  /\ ~pauseDisabled
  /\ IF speaking /\ ~paused
       THEN PauseBranch
     ELSE IF paused
       THEN ResumeBranch
     ELSE /\ UNCHANGED <<paused, indicatorHidden, queue>>
          /\ ev' = Ev("pause", "none")
  /\ quiet' = FALSE
  /\ UNCHANGED <<parseVars, variant, playDisabled, pauseDisabled, stopDisabled,
                 stray, domVars, isTranslating, pending, nsess>>

\* a stop handler that cancels and resets the page whatever the engine does
StopActs_Always(sp) == TRUE

\* stopBtn click: `if (synth.speaking)` guards cancel and setSpeakingState
StopActs(sp) == sp

\* the speak() invocations in ps, noted as waiting when Stop was clicked
StoppedAll(ps) == {[p EXCEPT !.stopped = TRUE] : p \in ps}

\* stopBtn click
StopClick ==
  /\ ~stopDisabled
  /\ IF variant = "translate" /\ isTranslating
       THEN /\ isTranslating' = FALSE
            /\ SetSpeakingFalse(queue, stray)
            /\ pending' = StoppedAll(pending)
            /\ ev' = Ev("stop", "translating")
            /\ UNCHANGED domVars
     ELSE IF StopActs(speaking)
       THEN /\ queue' = <<>>
            /\ stray' = stray \o Cancelled(queue)
            /\ paused' \in PausedAfterCancel(paused)
            /\ indicatorHidden' = TRUE
            /\ pauseDisabled' = TRUE
            /\ stopDisabled' = TRUE
            /\ playDisabled' = FALSE
            /\ ev' = Ev("stop", "cancel")
            /\ UNCHANGED <<domVars, isTranslating, pending>>
     ELSE /\ ev' = Ev("stop", "none")
          /\ UNCHANGED <<uiVars, engineVars, domVars, isTranslating, pending>>
  /\ quiet' = FALSE
  /\ UNCHANGED <<parseVars, variant, nsess>>

Next ==
  \/ PlayClick
  \/ PauseClick
  \/ StopClick
  \/ TranslateDone
  \/ OnStart
  \/ OnEnd
  \/ OnError
  \/ StrayStart
  \/ StrayEnd
  \/ StrayError

Spec == Init /\ [][Next]_vars

\* ------------------------------------------------ parseText on its own
\* a call of parseText(text) of one of the three scripts, outside the page
SegInit ==
  /\ PageInit
  /\ parseInput \in ParseInputs
  /\ parseOutput = <<>>
  /\ parseDone = FALSE

\* the call returns
Segment ==
  /\ ~parseDone
  /\ parseOutput' = parseText(variant, parseInput)
  /\ parseDone' = TRUE
  /\ UNCHANGED <<parseInput, variant, uiVars, engineVars, domVars,
                 isTranslating, pending, nsess, quiet, ev>>

SegNext == Segment

SegSpec == SegInit /\ [][SegNext]_vars

TypeOK ==
  /\ variant \in Variants
  /\ indicatorHidden \in BOOLEAN /\ playDisabled \in BOOLEAN
  /\ pauseDisabled \in BOOLEAN /\ stopDisabled \in BOOLEAN
  /\ paused \in BOOLEAN /\ isTranslating \in BOOLEAN
  /\ nsess \in 0..MaxSess
  /\ quiet \in BOOLEAN
  /\ Cardinality(highlight) <= 1

\* ================================================================ claims
\* a callback of the utterance the engine is playing / of a cancelled one
LiveCallback == OnStart \/ OnEnd \/ OnError
StrayCallback == StrayStart \/ StrayEnd \/ StrayError

\* the head of the engine queue is / is not the last segment of its start
HeadIsLast == queue[1].index = queue[1].n - 1

\* C1: after a start that enqueues N >= 1 segments, and with no pause or stop
\* issued, the page shows Speaking from the start on; the start, end or error
\* callback of a segment 1..N-1 never changes the aggregate state; the end or
\* error callback of the N-th segment makes it Idle.
C1_SpeakingUntilLastSegment ==
  [][ quiet =>
        /\ (PlayClick /\ queue = <<>> /\ queue' # <<>>) => AggState' = "Speaking"
        /\ (TranslateDone /\ queue = <<>> /\ queue' # <<>>) => AggState' = "Speaking"
        /\ (LiveCallback /\ ~HeadIsLast) => AggState' = AggState
        /\ ((OnEnd \/ OnError) /\ HeadIsLast) => AggState' = "Idle" ]_vars

\* C2: stop in any state leaves the page Idle with the engine queue empty, and
\* a callback of a cancelled utterance delivered while the page is Idle leaves
\* it Idle.
C2_StopLeavesIdle ==
  [][ /\ StopClick => (AggState' = "Idle" /\ queue' = <<>>)
      /\ (StrayCallback /\ AggState = "Idle") => AggState' = "Idle" ]_vars

\* C3: a callback of an utterance cancelled before the start of the session
\* now in the engine queue changes neither the aggregate state, nor the engine
\* queue, nor the highlighted segment.
C3_StaleCallbackIsNoOp ==
  [][ (StrayCallback /\ queue # <<>>) =>
        /\ AggState' = AggState
        /\ queue' = queue
        /\ highlight' = highlight ]_vars

\* C4: a start (Play with the engine not paused) while the page shows Speaking
\* changes neither the aggregate state, nor the engine queue, nor the stored
\* segment list, and submits nothing.
C4_StartWhileSpeakingIsNoOp ==
  [][ (PlayClick /\ ~paused /\ AggState = "Speaking") =>
        /\ AggState' = AggState
        /\ queue' = queue
        /\ currentSegments' = currentSegments
        /\ pending' = pending ]_vars

\* C5: a start from Idle with a text whose segmentation is empty leaves the
\* page Idle: it does not show Speaking, submits nothing, and Play stays
\* enabled.
C5_EmptySegmentationStaysIdle ==
  [][ \A text \in InputTexts, translate \in BOOLEAN :
        ( /\ parseText(variant, text) = <<>>
          /\ AggState = "Idle" /\ ~playDisabled /\ ~paused
          /\ Speak(text, translate) )
        => /\ AggState' = "Idle"
           /\ queue' = queue
           /\ playDisabled' = FALSE ]_vars

\* C6: an error callback of a segment that is not the last keeps the
\* aggregate state, cancels nothing and leaves the rest of the queue to be
\* played; an error callback of the last segment makes the page Idle.
C6_ErrorLikeCompletion ==
  [][ /\ (OnError /\ ~HeadIsLast) =>
            /\ AggState' = AggState
            /\ queue' = Tail(queue)
            /\ stray' = stray
      /\ (OnError /\ HeadIsLast) => AggState' = "Idle" ]_vars

\* the resume primitive of the engine is called
ResumeCalled == (PlayClick /\ paused) \/ (PauseClick /\ ~(speaking /\ ~paused) /\ paused)

\* C7: a pause issued while the page shows Speaking, followed by a resume,
\* shows Speaking again, and neither the pause nor the resume changes the
\* sequence of utterances the engine still has to play.
C7_PauseResumeKeepsQueue ==
  [][ /\ (PauseClick /\ AggState = "Speaking") => queue' = queue
      /\ ((PauseClick \/ PlayClick) /\ ev = Ev("pause", "pause")) =>
            /\ AggState' = "Speaking"
            /\ ~paused'
            /\ queue' = queue
      /\ ((PauseClick \/ PlayClick) /\ ev = Ev("pause", "none")
            /\ AggState = "Speaking") =>
            /\ AggState' = "Speaking"
            /\ queue' = queue ]_vars

\* C7 witness: the resume that follows a pause has run, the page shows
\* Speaking and the engine still holds the utterance it was playing and the
\* ones after it.
C7_Witness ==
  /\ ev = Ev("pause", "resume")
  /\ AggState = "Speaking"
  /\ ~paused
  /\ Len(queue) >= 2
  /\ queue[1].started

\* C8: a pause request while the page shows Speaking pauses the engine and
\* the page shows Paused; a pause request in Idle or in Paused calls no engine
\* primitive and leaves the aggregate state and the engine queue unchanged.
C8_PauseOnlyFromSpeaking ==
  [][ PauseClick =>
        IF AggState = "Speaking"
          THEN paused' /\ AggState' = "Paused"
          ELSE /\ paused' = paused
               /\ AggState' = AggState
               /\ queue' = queue ]_vars

\* C9: the resume primitive is called only while the engine is paused with a
\* live queue, and a resume request in Idle neither shows Speaking nor
\* submits anything.
C9_ResumeOnlyWhenPaused ==
  [][ /\ ResumeCalled => (paused /\ queue # <<>>)
      /\ (ResumeCalled /\ AggState = "Idle") =>
            /\ AggState' # "Speaking"
            /\ queue' = queue ]_vars

\* C10: the page starts Idle and every change of the aggregate state is one of
\* Idle to Speaking by a start that leaves the engine queue non-empty,
\* Speaking to Paused by a pause, Paused to Speaking by a resume, and
\* Speaking or Paused to Idle by a stop or by the end or error of the last
\* segment.
C10_OnlyListedTransitions ==
  /\ AggState = "Idle"
  /\ [][ AggState' # AggState =>
           \/ /\ AggState = "Idle" /\ AggState' = "Speaking"
              /\ PlayClick /\ ~paused /\ queue' # <<>>
           \/ /\ AggState = "Speaking" /\ AggState' = "Paused"
              /\ PauseClick
           \/ /\ AggState = "Paused" /\ AggState' = "Speaking"
              /\ ResumeCalled
           \/ /\ AggState \in {"Speaking", "Paused"} /\ AggState' = "Idle"
              /\ (StopClick \/ ((OnEnd \/ OnError) /\ HeadIsLast)) ]_vars

\* the state of the controller and of the engine: every variable but the
\* bookkeeping of the last handler
progVars == <<uiVars, engineVars, domVars, isTranslating, pending, nsess>>

SubmittedAll(q, q2, segs) ==
  /\ Len(q2) = Len(q) + Len(segs)
  /\ \A j \in 1..Len(q) : q2[j] = q[j]
  /\ \A j \in 1..Len(segs) :
       LET u == q2[Len(q) + j]
       IN /\ u.text = segs[j].text
          /\ u.index = j - 1
          /\ u.voice = (IF segs[j].type = "ko" THEN "voiceSelectKo"
                                                ELSE "voiceSelectEn")
          /\ u.rate = q2[Len(q) + 1].rate
          /\ u.pitch = q2[Len(q) + 1].pitch
          /\ ~u.started

\* C12: a start that goes through submits, in the one step of the start, one
\* request per segment of the segmenter's result, in the segmenter's order
\* and before any callback runs; each request has the segment's text, the
\* Korean voice for a Korean segment and the Latin voice otherwise, and the
\* rate and pitch of the first request.  With translation the text segmented
\* is the input followed by the translation.
C12_OneRequestPerSegment ==
  [][ /\ \A text \in InputTexts :
           (ev' = Ev("play", "start") /\ PlayClick /\ ~paused
              /\ Speak(text, FALSE))
             => SubmittedAll(queue, queue', parseText(variant, text))
      /\ \A p \in pending, translation \in TranslationResults :
           (ev' = Ev("translated", "start") /\ TranslateDone
              /\ Translated(p, translation))
             => SubmittedAll(queue, queue',
                             parseText(variant, Combined(p.text, translation)))
    ]_vars

\* C12 witness: a start has just queued a Korean, a Latin and a Korean
\* request and no callback has run yet.
C12_Witness ==
  /\ ev = Ev("play", "start")
  /\ Len(queue) = 3
  /\ \A j \in 1..3 : ~queue[j].started
  /\ queue[1].voice = "voiceSelectKo"
  /\ queue[2].voice = "voiceSelectEn"
  /\ queue[3].voice = "voiceSelectKo"

\* C13: when the translation service fails during a start with translation
\* switched on, the requests submitted to the engine are those of the
\* segments of the original input text alone.
C13_FailedTranslationSpeaksOriginal ==
  [][ \A p \in pending :
        (TranslateDone /\ Translated(p, TranslationFailed)
           /\ ev' = Ev("translated", "start"))
          => SubmittedAll(queue, queue', parseText(variant, p.text)) ]_vars

\* ----------------------------------------------- claims on the segmenter
\* the texts of the segments, one after the other
RECURSIVE Concat(_)
Concat(segs) ==
  IF segs = <<>> THEN <<>> ELSE segs[1].text \o Concat(Tail(segs))

\* c is s without a white-space-only run at its start, at its end, or both
IsEdgeTrim(c, s) ==
  \E i \in 1..(Len(s) + 1), j \in 0..Len(s) :
    /\ c = SubSeq(s, i, j)
    /\ \A m \in 1..(i - 1) : s[m] \in WhiteSpace
    /\ \A m \in (j + 1)..Len(s) : s[m] \in WhiteSpace

\* c is s with some of its white-space characters left out, nothing else
\* left out, added or moved
RECURSIVE DropsOnlyWhiteSpace(_, _)
DropsOnlyWhiteSpace(c, s) ==
  IF s = <<>> THEN c = <<>>
  ELSE \/ c # <<>> /\ c[1] = s[1] /\ DropsOnlyWhiteSpace(Tail(c), Tail(s))
       \/ s[1] \in WhiteSpace /\ DropsOnlyWhiteSpace(c, Tail(s))

\* C14 as stated: under both policies the texts of the returned segments,
\* concatenated in order, are the input without leading and/or trailing
\* white-space-only runs; nothing in the interior is dropped.
C14_ConcatIsEdgeTrimmedInput ==
  parseDone => IsEdgeTrim(Concat(parseOutput), parseInput)

\* C14 amended: under the base policy the concatenation is the input, or the
\* input without its leading white-space run; under the sentence-boundary
\* policy white-space-only segments are dropped wherever they lie, the
\* interior included, so the concatenation is the input with some white
\* space left out.  Under both policies no other character is lost, and none
\* is duplicated or reordered.
C14_ConcatDropsOnlyWhiteSpace ==
  parseDone =>
    LET c == Concat(parseOutput)
    IN IF variant = "base"
         THEN c = parseInput \/ c = TrimLeft(parseInput)
         ELSE DropsOnlyWhiteSpace(c, parseInput)

\* C14 witness: the sentence-boundary policy has dropped the blank between a
\* full stop and a Korean word.
C14_Witness ==
  /\ parseDone
  /\ variant # "base"
  /\ parseInput = <<"a", ".", " ", "k">>
  /\ Concat(parseOutput) = <<"a", ".", "k">>

\* C15: under both policies every segment returned has a text that is not
\* empty once its leading and trailing white space is trimmed.
C15_NoBlankSegment ==
  parseDone =>
    \A j \in 1..Len(parseOutput) : Len(trim(parseOutput[j].text)) > 0

\* C15 witness: the sentence-boundary policy was given two sentences with an
\* empty line between them and returned the two sentences only.
C15_Witness ==
  /\ parseDone
  /\ variant # "base"
  /\ parseInput = <<"a", "\n", "\n", "k">>
  /\ Len(parseOutput) = 2
  /\ parseOutput[1].text = <<"a", "\n">>
  /\ parseOutput[2].text = <<"k">>

\* the text is made of neutral characters only
AllNeutral(s) == \A i \in 1..Len(s) : isNeutral(s[i])

\* the text has a character that is not white space
HasInk(s) == \E i \in 1..Len(s) : s[i] \notin WhiteSpace

\* C16 as stated: under the base policy every non-empty input made of
\* neutral characters only (digits, white space, the punctuation set) gives
\* exactly one segment, tagged Latin, whose text is the whole input.
C16_NeutralOnlyIsOneLatinSegment ==
  (parseDone /\ variant = "base" /\ parseInput # <<>> /\ AllNeutral(parseInput))
    => parseOutput = << [text |-> parseInput, type |-> "en"] >>

\* C16 amended: under the base policy an input made of neutral characters
\* only gives exactly one segment, tagged Latin, whose text is the whole
\* input (its white space included), if one of its characters is not white
\* space; an input of white space only gives no segment.
C16_NeutralWithInkIsOneLatinSegment ==
  (parseDone /\ variant = "base" /\ AllNeutral(parseInput)) =>
    IF HasInk(parseInput)
      THEN parseOutput = << [text |-> parseInput, type |-> "en"] >>
      ELSE parseOutput = <<>>

\* C16 witness: digits, punctuation and blanks came back as one Latin
\* segment.
C16_Witness ==
  /\ parseDone
  /\ variant = "base"
  /\ parseInput = <<"1", ".", " ", "1">>
  /\ parseOutput = << [text |-> <<"1", ".", " ", "1">>, type |-> "en"] >>

\* s is a Korean word, then digits, then a Latin word, nothing between them;
\* i is the length of the Korean word and j the position of the last digit
IsKoDigitsEn(s, i, j) ==
  /\ 1 <= i /\ i < j /\ j < Len(s)
  /\ \A m \in 1..i : charTypeOf(s[m]) = "ko"
  /\ \A m \in (i + 1)..j : s[m] = "1"
  /\ \A m \in (j + 1)..Len(s) : charTypeOf(s[m]) = "en"

\* C17: under the base policy every segment after the first starts with a
\* non-neutral character whose class differs from the language of the
\* segment before it, and the segments are consecutive pieces of the input
\* (only a leading white-space run can be missing), so no neutral character
\* starts or ends a piece by itself and every neutral run stays with the
\* segment on its left.  A Korean word, digits and a Latin word in a row
\* give two segments with the digits in the Korean one; "abc123한글" gives
\* ("abc123", Latin), ("한글", Korean).
C17_NeutralNeverSplits ==
  (parseDone /\ variant = "base") =>
    /\ \A j \in 2..Len(parseOutput) :
         LET c == parseOutput[j].text[1]
         IN /\ ~isNeutral(c)
            /\ charTypeOf(c) = parseOutput[j].type
            /\ charTypeOf(c) # parseOutput[j - 1].type
    /\ Concat(parseOutput) \in {parseInput, TrimLeft(parseInput)}
    /\ \A i, j \in 1..Len(parseInput) :
         IsKoDigitsEn(parseInput, i, j) =>
           parseOutput = << [text |-> SubSeq(parseInput, 1, j), type |-> "ko"],
                            [text |-> SubSeq(parseInput, j + 1, Len(parseInput)),
                             type |-> "en"] >>
    /\ parseInput = TextAbc123 =>
         parseOutput = << [text |-> <<"a", "a", "a", "1", "1", "1">>, type |-> "en"],
                          [text |-> <<"k", "k">>, type |-> "ko"] >>

\* C17 witness: a Korean word, a digit and a Latin word came back as two
\* segments, the digit at the end of the Korean one.
C17_Witness ==
  /\ parseDone
  /\ variant = "base"
  /\ parseInput = <<"k", "k", "1", "a">>
  /\ parseOutput = << [text |-> <<"k", "k", "1">>, type |-> "ko"],
                      [text |-> <<"a">>, type |-> "en"] >>

\* C18 as stated: "1995년", digits directly followed by a Korean character
\* with nothing before the digits, gives exactly one segment holding the
\* whole text.
C18_DigitsThenKoreanIsOneSegment ==
  (parseDone /\ parseInput = Text1995) =>
    /\ Len(parseOutput) = 1
    /\ parseOutput[1].text = Text1995

\* C18 amended: "1995년" gives exactly two segments under both policies: the
\* digits, tagged Latin, then the Korean character, tagged Korean.
C18_DigitsThenKoreanIsTwoSegments ==
  (parseDone /\ parseInput = Text1995) =>
    parseOutput = << [text |-> <<"1", "1", "1", "1">>, type |-> "en"],
                     [text |-> <<"k">>, type |-> "ko"] >>

\* C18 witness: the base policy has split "1995년" after the digits.
C18_Witness ==
  /\ parseDone
  /\ variant = "base"
  /\ parseInput = Text1995
  /\ Len(parseOutput) = 2
  /\ parseOutput[1].type = "en"
  /\ parseOutput[2].text = <<"k">>

\* a Korean or Latin letter
IsLetter(char) == ~isNeutral(char)

\* the letters of a text, in order
Letters(s) == SelectSeq(s, IsLetter)

\* the segment holds a letter
HasLetter(seg) == Letters(seg.text) # <<>>

\* number of maximal runs of letters of one language among the letters of s
Runs(s) ==
  LET l == Letters(s)
  IN IF l = <<>> THEN 0
     ELSE 1 + Cardinality({i \in 2..Len(l) : charTypeOf(l[i]) # charTypeOf(l[i - 1])})

\* C19: under the base policy "Hello 안녕하세요 world" gives exactly
\* ("Hello ", Latin), ("안녕하세요 ", Korean), ("world", Latin).  In general the
\* segments that hold letters are, in order, one per run of letters of one
\* language: each is tagged with the language of all its letters, two in a
\* row differ in language, together they hold the letters of the input, and
\* every segment after the first starts with a letter, so the blank between
\* two words ends the earlier segment.
C19_OneSegmentPerAlternation ==
  (parseDone /\ variant = "base") =>
    /\ parseInput = TextHello =>
         parseOutput =
           << [text |-> <<"a", "a", "a", "a", "a", " ">>, type |-> "en"],
              [text |-> <<"k", "k", "k", "k", "k", " ">>, type |-> "ko"],
              [text |-> <<"a", "a", "a", "a", "a">>, type |-> "en"] >>
    /\ LET ls == SelectSeq(parseOutput, HasLetter)
       IN /\ Len(ls) = Runs(parseInput)
          /\ \A j \in 1..Len(ls) :
               /\ \A i \in 1..Len(ls[j].text) :
                    IsLetter(ls[j].text[i]) => charTypeOf(ls[j].text[i]) = ls[j].type
               /\ j > 1 => ls[j].type # ls[j - 1].type
          /\ Letters(Concat(ls)) = Letters(parseInput)
    /\ \A j \in 2..Len(parseOutput) : IsLetter(parseOutput[j].text[1])

\* C19 witness: the base policy has returned the three segments of
\* "Hello 안녕하세요 world".
C19_Witness ==
  /\ parseDone
  /\ variant = "base"
  /\ parseInput = TextHello
  /\ Len(parseOutput) = 3
  /\ parseOutput[2] = [text |-> <<"k", "k", "k", "k", "k", " ">>, type |-> "ko"]

C21_EmptyTextNoSegment ==
  (parseDone /\ parseInput = <<>>) => parseOutput = <<>>

\* C21 witness: parseText has returned from a call with the empty string,
\* under the base policy.
C21_Witness ==
  /\ parseDone
  /\ variant = "base"
  /\ parseInput = <<>>
  /\ parseOutput = <<>>

\* C22: whenever the page shows Speaking with Play disabled and no
\* translation is awaited, the engine holds an utterance of the session
\* started last, spoken or pending; this is what lets the callback of the
\* last utterance bring every run that shows Speaking back to Idle.
C22_SpeakingHoldsUtterance ==
  (AggState = "Speaking" /\ playDisabled /\ ~isTranslating /\ pending = {})
    => \E j \in 1..Len(queue) : queue[j].sess = nsess

\* C23: a start that was waiting for its translation when Stop was clicked
\* submits no utterance when the translation resolves and does not make the
\* page show Speaking, also when a second start was issued in between; and
\* a start that was not stopped is not treated as cancelled.
C23_StoppedStartSubmitsNothing ==
  [][ \A p \in pending, translation \in TranslationResults :
        (TranslateDone /\ Translated(p, translation)) =>
          IF p.stopped
            THEN /\ queue' = queue
                 /\ AggState' = "Speaking" => AggState = "Speaking"
            ELSE ev' # Ev("translated", "cancelled") ]_vars

\* C24: in the scripts that highlight, at most one segment carries the
\* highlight; after a callback of the engine a highlighted segment is the one
\* the engine is playing; within one session the highlighted index does not
\* decrease; and no segment is highlighted once the page is Idle after a
\* stop or after the end or error of the last segment.
C24_HighlightFollowsPlayback ==
  [][ variant # "base" =>
        /\ Cardinality(highlight') <= 1
        /\ (LiveCallback /\ highlight' # {}) =>
              /\ queue' # <<>>
              /\ queue'[1].started
              /\ highlight' = {queue'[1].index}
        /\ (LiveCallback /\ nsess = 1) =>
              \A i \in highlight, j \in highlight' : i <= j
        /\ (StopClick /\ AggState' = "Idle") => highlight' = {}
        /\ ((OnEnd \/ OnError) /\ AggState' = "Idle"
              /\ IsLastSegment(variant, queue[1], currentSegments))
             => highlight' = {} ]_vars

\* C25: under both policies every returned segment is pure: all its letters
\* are of the language of its tag (no Latin letter in a Korean segment, no
\* Korean one in a Latin segment), and the tag is the class of its first
\* letter, or Latin when it has no letter.
C25_SegmentsLanguagePure ==
  parseDone =>
    \A j \in 1..Len(parseOutput) :
      LET l == Letters(parseOutput[j].text)
      IN /\ parseOutput[j].type \in {"ko", "en"}
         /\ \A i \in 1..Len(l) : charTypeOf(l[i]) = parseOutput[j].type
         /\ parseOutput[j].type = (IF l = <<>> THEN "en" ELSE charTypeOf(l[1]))

\* C25 witness: the base policy has returned a Latin segment without a
\* letter, a Korean segment and a Latin segment.
C25_Witness ==
  /\ parseDone
  /\ variant = "base"
  /\ parseInput = <<"1", "k", " ", "a">>
  /\ parseOutput = << [text |-> <<"1">>, type |-> "en"],
                      [text |-> <<"k", " ">>, type |-> "ko"],
                      [text |-> <<"a">>, type |-> "en"] >>

\* C26: under the base policy two segments that follow one another in the
\* result never carry the same language tag, also when a leading
\* white-space run was dropped in front of them.
C26_ConsecutiveTagsDiffer ==
  (parseDone /\ variant = "base") =>
    \A j \in 2..Len(parseOutput) :
      parseOutput[j].type # parseOutput[j - 1].type

\* C26 witness: the base policy has dropped a leading blank and returned a
\* Korean segment followed by a Latin one.
C26_Witness ==
  /\ parseDone
  /\ variant = "base"
  /\ parseInput = <<" ", "k", " ", "a">>
  /\ parseOutput = << [text |-> <<"k", " ">>, type |-> "ko"],
                      [text |-> <<"a">>, type |-> "en"] >>

====
